---- MODULE Spec2Model ----
(***************************************************************************)
(* Model of the reshape and cleaning functions of src/utils.py.            *)
(*                                                                         *)
(* A text is a sequence of one-character strings, so that the string       *)
(* functions (strip, split, regular-expression search) are computed        *)
(* character by character as Python computes them.  A table (a pandas      *)
(* DataFrame) is a record of its ordered column names and its rows; every  *)
(* row is a sequence of cells aligned with the column names.               *)
(***************************************************************************)
EXTENDS Integers, Sequences, FiniteSets, TLC

VARIABLES
    df_data,    \* the caller's data table object (mutated in place by some calls)
    df_notes,   \* the caller's footnote table
    pc,         \* "ready" before the call, "done" after it
    call,       \* the call that was made: its name and arguments
    df_before,  \* history: df_data as it was when the call was made
    ret         \* what the call returned: a table, or the error it raised

vars == <<df_data, df_notes, pc, call, df_before, ret>>

-----------------------------------------------------------------------------
(* Bounds of the model.                                                    *)

\* Longest enumerated cell text of the delimiter splitter, in characters.
MaxCellLen == 4

\* Most segments a generated column header is put together from.
MaxHeaderSegments == 3

\* Most rows of a table given to the unpivoter.
MaxRows == 2

\* Most segments a generated measure label is put together from.
MaxMeasureSegments == 6

\* Most segments a generated demographic variable label is put together from.
MaxVariableSegments == 5

\* Most segments a generated Response value is put together from.
MaxResponseSegments == 4

-----------------------------------------------------------------------------
(* Column names used by the pipeline.                                      *)

ColDemographicVariable == <<"D", "e", "m", "o", "g", "r", "a", "p", "h", "i", "c", " ", "v", "a", "r", "i", "a", "b", "l", "e">>
ColDemographicVariableCode == <<"D", "e", "m", "o", "g", "r", "a", "p", "h", "i", "c", " ", "v", "a", "r", "i", "a", "b", "l", "e", " ", "c", "o", "d", "e">>
ColDemographicVariableName == <<"D", "e", "m", "o", "g", "r", "a", "p", "h", "i", "c", " ", "v", "a", "r", "i", "a", "b", "l", "e", " ", "n", "a", "m", "e">>
ColDerivedFrom == <<"D", "e", "r", "i", "v", "e", "d", " ", "f", "r", "o", "m">>
ColResponse == <<"R", "e", "s", "p", "o", "n", "s", "e">>
ColNotes == <<"N", "o", "t", "e", "s">>
ColMeasure == <<"M", "e", "a", "s", "u", "r", "e">>
ColValue == <<"V", "a", "l", "u", "e">>
ColMeasureCode == <<"M", "e", "a", "s", "u", "r", "e", " ", "c", "o", "d", "e">>
ColMeasureName == <<"M", "e", "a", "s", "u", "r", "e", " ", "n", "a", "m", "e">>
ColDefinition == <<"D", "e", "f", "i", "n", "i", "t", "i", "o", "n">>
ColNoteNumber == <<"N", "o", "t", "e", " ", "n", "u", "m", "b", "e", "r">>

-----------------------------------------------------------------------------
(* Texts.                                                                  *)

EmptyText == <<>>

\* The whitespace characters of the model's alphabet (str.strip(), \s).
Whitespace == {" ", "\n"}

\* All texts over the alphabet A of at most n characters.
TextsUpTo(A, n) == UNION {[1..k -> A] : k \in 0..n}

SetMin(S) == CHOOSE x \in S : \A y \in S : x <= y
SetMax(S) == CHOOSE x \in S : \A y \in S : x >= y

\* s[i..j) as Python slices it, on 0-based offsets, clamped to the text.
Slice(s, i, j) == SubSeq(s, i + 1, IF j > Len(s) THEN Len(s) ELSE j)

\* str.strip(chars): the characters of cs removed from both ends.
StripChars(s, cs) ==
    LET keep == {i \in 1..Len(s) : s[i] \notin cs}
    IN  IF keep = {} THEN EmptyText ELSE SubSeq(s, SetMin(keep), SetMax(keep))

\* str.strip(): whitespace removed from both ends.
Strip(s) == StripChars(s, Whitespace)

\* The literal d occurs in s at 1-based position i.
OccursAt(s, i, d) ==
    /\ i >= 1
    /\ i + Len(d) - 1 <= Len(s)
    /\ SubSeq(s, i, i + Len(d) - 1) = d

-----------------------------------------------------------------------------
(* Tables.                                                                 *)

EmptyTable == [columns |-> <<>>, rows |-> <<>>]

NoReturn == [kind |-> "none", error |-> "", table |-> EmptyTable]
Returned(t) == [kind |-> "ok", error |-> "", table |-> t]
Raised(e) == [kind |-> "error", error |-> e, table |-> EmptyTable]

HasColumn(t, c) == \E k \in 1..Len(t.columns) : t.columns[k] = c

\* Index.get_loc(c): the position of column c (column names are unique).
GetLoc(t, c) == CHOOSE k \in 1..Len(t.columns) : t.columns[k] = c

\* The cells of column c, top to bottom.
Column(t, c) == [i \in 1..Len(t.rows) |-> t.rows[i][GetLoc(t, c)]]

InsertAt(s, k, x) == SubSeq(s, 1, k - 1) \o <<x>> \o SubSeq(s, k, Len(s))
RemoveAt(s, k) == SubSeq(s, 1, k - 1) \o SubSeq(s, k + 1, Len(s))

\* DataFrame.insert(loc, column, value): column inserted before 1-based position k.
InsertColumn(t, k, c, cells) ==
    [columns |-> InsertAt(t.columns, k, c),
     rows |-> [i \in 1..Len(t.rows) |-> InsertAt(t.rows[i], k, cells[i])]]

\* DataFrame.drop(columns=[c]): a new table without column c.
DropColumn(t, c) ==
    LET k == GetLoc(t, c)
    IN  [columns |-> RemoveAt(t.columns, k),
         rows |-> [i \in 1..Len(t.rows) |-> RemoveAt(t.rows[i], k)]]

-----------------------------------------------------------------------------
(* split_column_on_delimiter (src/utils.py 64-106).                        *)

\* A missing cell (None / NaN): what str.split leaves where a row has no second piece.
Missing == <<"<NA>">>

\* The 1-based positions of s at which one of the delimiters occurs: the matches
\* of the alternation of the escaped delimiters.
DelimiterPositions(s, delimiters) ==
    {i \in 1..Len(s) : \E k \in 1..Len(delimiters) : OccursAt(s, i, delimiters[k])}

\* str.contains(pattern, regex=True) of one cell.
ContainsDelimiter(s, delimiters) == DelimiterPositions(s, delimiters) # {}

\* A split that is not limited to one: the first two pieces of re.split(pattern, s).
SplitEveryOccurrence(s, delimiters) ==
    LET ps == DelimiterPositions(s, delimiters)
    IN  IF ps = {} THEN <<s>>
        ELSE LET i == SetMin(ps)
                 k == SetMin({m \in 1..Len(delimiters) : OccursAt(s, i, delimiters[m])})
                 rest == SubSeq(s, i + Len(delimiters[k]), Len(s))
                 qs == DelimiterPositions(rest, delimiters)
             IN  <<SubSeq(s, 1, i - 1),
                   IF qs = {} THEN rest ELSE SubSeq(rest, 1, SetMin(qs) - 1)>>

\* A split at the last occurrence instead of the first (str.rsplit).
SplitAtLast(s, delimiters) ==
    LET ps == DelimiterPositions(s, delimiters)
    IN  IF ps = {} THEN <<s>>
        ELSE LET i == SetMax(ps)
                 k == SetMin({m \in 1..Len(delimiters) : OccursAt(s, i, delimiters[m])})
             IN  <<SubSeq(s, 1, i - 1), SubSeq(s, i + Len(delimiters[k]), Len(s))>>

\* str.split(pattern, n=1, regex=True) of one cell: the leftmost match of the
\* alternation, and at that position the first alternative that matches.
SplitOnce(s, delimiters) ==
    LET ps == DelimiterPositions(s, delimiters)
    IN  IF ps = {} THEN <<s>>
        ELSE LET i == SetMin(ps)
                 k == SetMin({m \in 1..Len(delimiters) : OccursAt(s, i, delimiters[m])})
             IN  <<SubSeq(s, 1, i - 1), SubSeq(s, i + Len(delimiters[k]), Len(s))>>

\* The call on table t: the caller's table after it (df.insert acts in place) and
\* what the call returns or raises.
split_column_on_delimiter(t, input_column, output_column1, output_column2, delimiters) ==
    IF ~HasColumn(t, input_column)
    THEN [df |-> t, ret |-> Raised("ValueError")]
    ELSE
    LET n == Len(t.rows)
        cells == Column(t, input_column)
        has_delim == [i \in 1..n |-> ContainsDelimiter(cells[i], delimiters)]
        split_columns == [i \in 1..n |-> SplitOnce(cells[i], delimiters)]
        \* expand=True: as many columns as the longest split has pieces
        width == SetMax({Len(split_columns[i]) : i \in 1..n})
        col_idx == GetLoc(t, input_column)
        stripped1 == [i \in 1..n |-> Strip(split_columns[i][1])]
        stripped2 == [i \in 1..n |->
                        IF Len(split_columns[i]) > 1
                        THEN Strip(split_columns[i][2]) ELSE Missing]
        new_col1 == [i \in 1..n |-> IF has_delim[i] THEN stripped1[i] ELSE EmptyText]
        new_col2 == [i \in 1..n |-> IF has_delim[i] THEN stripped2[i] ELSE cells[i]]
        t1 == InsertColumn(t, col_idx, output_column1, new_col1)
        t2 == InsertColumn(t1, col_idx + 1, output_column2, new_col2)
    IN  IF width <= 1
        THEN \* new_col2 is the str "", which has no .where (line 102)
             [df |-> t, ret |-> Raised("AttributeError")]
        ELSE IF HasColumn(t, output_column1)
        THEN [df |-> t, ret |-> Raised("ValueError")]
        ELSE IF HasColumn(t1, output_column2)
        THEN [df |-> t1, ret |-> Raised("ValueError")]
        ELSE [df |-> t2, ret |-> Returned(DropColumn(t2, input_column))]

\* The delimiter arguments of the yearly inputs: ":" or "." alone, or "." and a line break.
DelimiterChoices == { << <<".">> >>, << <<":">> >>, << <<".">>, <<"\n">> >> }

\* Cell texts of the split column: every text of at most MaxCellLen characters
\* over a small alphabet, and the examples of the specification.
CellAlphabet == {"A", "b", " ", ".", "\n"}
ExampleCells ==
    { <<"A", "1", ".", "L", "a", "b", "e", "l", " ", "t", "e", "x", "t">>,
      <<"N", "o", "D", "e", "l", "i", "m", "i", "t", "e", "r", "H", "e", "r", "e">>,
      <<"A", ".", "B", ".", "C">>,
      <<"A", "1", ":", " ", "x", ".", "y">> }
CellTexts == TextsUpTo(CellAlphabet, MaxCellLen) \cup ExampleCells

\* What the other rows of the table hold in the split column.
OtherCells == { <<"B", "2", ".", "y">>, <<"n", "o", "n", "e">> }

\* The column layouts of the tables given to the splitter; the last lacks the column.
SplitLayouts ==
    { <<ColDemographicVariable, ColResponse>>,
      <<ColResponse, ColDemographicVariable, ColNotes>>,
      <<ColResponse, ColNotes>> }

\* A row of a table with the given columns: c in the split column, a fixed text elsewhere.
SplitRow(columns, c) ==
    [k \in 1..Len(columns) |->
        IF columns[k] = ColDemographicVariable THEN c ELSE <<"r">>]

\* The footnote table of the specifications that do not vary it.
DefaultNotes == [columns |-> <<ColNoteNumber>>, rows |-> << <<<<"1">>>> >>]

InitSplit ==
    /\ \E columns \in SplitLayouts, c \in CellTexts, others \in TextsUpTo(OtherCells, 1) :
          df_data = [columns |-> columns,
                     rows |-> <<SplitRow(columns, c)>>
                              \o [i \in 1..Len(others) |-> SplitRow(columns, others[i])]]
    /\ df_notes = DefaultNotes
    /\ pc = "ready"
    /\ call = [op |-> "none", delimiters |-> <<>>]
    /\ df_before = df_data
    /\ ret = NoReturn

\* reshape_data's first use of the splitter (line 275), with one of the delimiter arguments.
SplitColumnOnDelimiter ==
    /\ pc = "ready"
    /\ \E delimiters \in DelimiterChoices :
          LET r == split_column_on_delimiter(df_data, ColDemographicVariable,
                        ColDemographicVariableCode, ColDemographicVariableName, delimiters)
          IN  /\ df_data' = r.df
              /\ ret' = r.ret
              /\ call' = [op |-> "split_column_on_delimiter", delimiters |-> delimiters]
    /\ df_before' = df_data
    /\ pc' = "done"
    /\ UNCHANGED df_notes

NextSplit == SplitColumnOnDelimiter

SpecSplit == InitSplit /\ [][NextSplit]_vars

-----------------------------------------------------------------------------
(* Properties of split_column_on_delimiter.                                *)

\* t is s without its leading and trailing whitespace.
IsTrimOf(t, s) ==
    \E i \in 0..Len(s) :
        /\ i + Len(t) <= Len(s)
        /\ SubSeq(s, i + 1, i + Len(t)) = t
        /\ \A k \in 1..i : s[k] \in Whitespace
        /\ \A k \in (i + Len(t) + 1)..Len(s) : s[k] \in Whitespace
        /\ (t # EmptyText => t[1] \notin Whitespace /\ t[Len(t)] \notin Whitespace)

SplitDone == pc = "done" /\ call.op = "split_column_on_delimiter"

\* The rows of the table the splitter was given whose cell holds a delimiter.
RowsWithDelimiter ==
    IF HasColumn(df_before, ColDemographicVariable)
    THEN {i \in 1..Len(df_before.rows) :
            \E p \in 1..Len(Column(df_before, ColDemographicVariable)[i]) :
               \E k \in 1..Len(call.delimiters) :
                  OccursAt(Column(df_before, ColDemographicVariable)[i], p, call.delimiters[k])}
    ELSE {}

RowsWithoutDelimiter ==
    IF HasColumn(df_before, ColDemographicVariable)
    THEN (1..Len(df_before.rows)) \ RowsWithDelimiter
    ELSE {}

InputCell(i) == Column(df_before, ColDemographicVariable)[i]
CodeCell(i) == Column(ret.table, ColDemographicVariableCode)[i]
NameCell(i) == Column(ret.table, ColDemographicVariableName)[i]

\* p is the earliest position of c at which a delimiter occurs, and d occurs there.
FirstOccurrence(c, p, d) ==
    /\ OccursAt(c, p, d)
    /\ \A q \in 1..(p - 1) : \A k \in 1..Len(call.delimiters) :
          ~OccursAt(c, q, call.delimiters[k])

\* C1: for every row whose cell holds a delimiter, the cell is split only at the
\* earliest occurrence of a delimiter: the first output is the text before it,
\* trimmed, and the second output is all the text after it, trimmed, later
\* occurrences included.
C1_SplitAtFirstOccurrence ==
    SplitDone =>
        \A i \in RowsWithDelimiter :
            /\ ret.kind = "ok"
            /\ \E p \in 1..Len(InputCell(i)) : \E k \in 1..Len(call.delimiters) :
                  LET d == call.delimiters[k]
                      c == InputCell(i)
                  IN  /\ FirstOccurrence(c, p, d)
                      /\ IsTrimOf(CodeCell(i), SubSeq(c, 1, p - 1))
                      /\ IsTrimOf(NameCell(i), SubSeq(c, p + Len(d), Len(c)))

\* A row with two delimiter occurrences was split, and its second output still
\* holds a delimiter.
C1_Witness ==
    /\ SplitDone
    /\ ret.kind = "ok"
    /\ \E i \in RowsWithDelimiter :
          /\ Cardinality(DelimiterPositions(InputCell(i), call.delimiters)) >= 2
          /\ DelimiterPositions(NameCell(i), call.delimiters) # {}
          /\ CodeCell(i) # EmptyText

\* C2, as claimed: on every table that has the input column the call returns
\* normally, and for every row whose cell holds no delimiter the first output is
\* the empty string and the second output is the original cell.
C2_NoDelimiterRowsPassThrough ==
    (SplitDone /\ HasColumn(df_before, ColDemographicVariable)) =>
        /\ ret.kind = "ok"
        /\ \A i \in RowsWithoutDelimiter :
              /\ CodeCell(i) = EmptyText
              /\ NameCell(i) = InputCell(i)

\* C9, as claimed: for every cell that holds a delimiter, first output, then the
\* delimiter it was split at, then second output is the original cell.
C9_RoundTrip ==
    (SplitDone /\ ret.kind = "ok") =>
        \A i \in RowsWithDelimiter :
            \E p \in 1..Len(InputCell(i)) : \E k \in 1..Len(call.delimiters) :
                /\ FirstOccurrence(InputCell(i), p, call.delimiters[k])
                /\ CodeCell(i) \o call.delimiters[k] \o NameCell(i) = InputCell(i)

\* s neither begins nor ends with whitespace.
NoOuterWhitespace(s) ==
    s # EmptyText => s[1] \notin Whitespace /\ s[Len(s)] \notin Whitespace

\* C9, amended: the round trip holds for the cells in which neither the text
\* before the first delimiter occurrence nor the text after it begins or ends
\* with whitespace.
C9_RoundTripWhenTrimmed ==
    (SplitDone /\ ret.kind = "ok") =>
        \A i \in RowsWithDelimiter :
            \A p \in 1..Len(InputCell(i)) : \A k \in 1..Len(call.delimiters) :
                LET c == InputCell(i)
                    d == call.delimiters[k]
                IN  ( /\ FirstOccurrence(c, p, d)
                      /\ k = SetMin({m \in 1..Len(call.delimiters) :
                                        OccursAt(c, p, call.delimiters[m])})
                      /\ NoOuterWhitespace(SubSeq(c, 1, p - 1))
                      /\ NoOuterWhitespace(SubSeq(c, p + Len(d), Len(c))) )
                    => CodeCell(i) \o d \o NameCell(i) = c

\* A cell with text on both sides of its first delimiter and a second delimiter
\* after it was split and is put together again.
C9_Witness ==
    /\ SplitDone
    /\ ret.kind = "ok"
    /\ \E i \in RowsWithDelimiter :
          /\ Cardinality(DelimiterPositions(InputCell(i), call.delimiters)) >= 2
          /\ CodeCell(i) # EmptyText
          /\ NameCell(i) # EmptyText
          /\ \E k \in 1..Len(call.delimiters) :
                CodeCell(i) \o call.delimiters[k] \o NameCell(i) = InputCell(i)

-----------------------------------------------------------------------------
(* strip_column_names and remove_column_name_note_numbers                  *)
(* (src/utils.py 5-61).                                                    *)

UpperLetters == <<"A", "B", "C", "D", "E", "F", "G", "H", "I", "J", "K", "L", "M",
                  "N", "O", "P", "Q", "R", "S", "T", "U", "V", "W", "X", "Y", "Z">>
LowerLetters == <<"a", "b", "c", "d", "e", "f", "g", "h", "i", "j", "k", "l", "m",
                  "n", "o", "p", "q", "r", "s", "t", "u", "v", "w", "x", "y", "z">>
Digits == {"0", "1", "2", "3", "4", "5", "6", "7", "8", "9"}

UpperToLower ==
    [c \in {UpperLetters[k] : k \in 1..26} |->
        LowerLetters[CHOOSE k \in 1..26 : UpperLetters[k] = c]]

\* str.lower() of one character.
LowerChar(c) == IF c \in DOMAIN UpperToLower THEN UpperToLower[c] ELSE c

\* str.lower().
Lower(s) == [i \in 1..Len(s) |-> LowerChar(s[i])]

\* The first position from i on whose character is not in cs (Len(s) + 1 if none).
RECURSIVE RunEnd(_, _, _)
RunEnd(s, i, cs) ==
    IF i > Len(s) \/ s[i] \notin cs THEN i ELSE RunEnd(s, i + 1, cs)

\* The four alternatives of the combined pattern, each at position i of the
\* lower-cased column name ls and with lower-cased note numbers, which is how
\* re.IGNORECASE compares them: the position of the last character of the match,
\* or 0 when the alternative does not match at i.

\* \[<note>\]
MatchNote(ls, i, note) ==
    IF ls[i] = "[" /\ OccursAt(ls, i + 1, note \o <<"]">>)
    THEN i + Len(note) + 1 ELSE 0

\* \[note\s*<note>\]: the whitespace is matched greedily and given back as needed.
MatchNoteWord(ls, i, note) ==
    IF ~OccursAt(ls, i, <<"[", "n", "o", "t", "e">>) THEN 0
    ELSE LET j == i + 5
             ks == {k \in 0..(RunEnd(ls, j, Whitespace) - j) :
                       OccursAt(ls, j + k, note \o <<"]">>)}
         IN  IF ks = {} THEN 0 ELSE j + SetMax(ks) + Len(note)

NotesClass == Digits \cup Whitespace \cup {",", "a", "n", "d"}
NumberListClass == Digits \cup Whitespace \cup {","}

\* \[notes?\s+[\d\s,and]+\]: no character of the class is "]", and the optional
\* "s" is no whitespace, so the match is the run up to the first "]".
MatchCompositeNotes(ls, i) ==
    IF ~OccursAt(ls, i, <<"[", "n", "o", "t", "e">>) THEN 0
    ELSE LET j == IF i + 5 <= Len(ls) /\ ls[i + 5] = "s" THEN i + 6 ELSE i + 5
             e == RunEnd(ls, j, NotesClass)
         IN  IF /\ e <= Len(ls)
                /\ ls[e] = "]"
                /\ e - j >= 2
                /\ ls[j] \in Whitespace
             THEN e ELSE 0

\* \[[\d\s,]+\]
MatchNumberList(ls, i) ==
    IF ls[i] # "[" THEN 0
    ELSE LET e == RunEnd(ls, i + 1, NumberListClass)
         IN  IF e <= Len(ls) /\ ls[e] = "]" /\ e - (i + 1) >= 1 THEN e ELSE 0

\* The combined pattern at position i: the first alternative that matches, the
\* two patterns of each note number in registry order, then the two general ones.
RECURSIVE MatchNotePatterns(_, _, _, _)
MatchNotePatterns(ls, i, notes, k) ==
    IF ls[i] # "[" THEN 0
    ELSE IF k > Len(notes)
    THEN LET e == MatchCompositeNotes(ls, i)
         IN  IF e > 0 THEN e ELSE MatchNumberList(ls, i)
    ELSE LET e1 == MatchNote(ls, i, notes[k])
         IN  IF e1 > 0 THEN e1
             ELSE LET e2 == MatchNoteWord(ls, i, notes[k])
                  IN  IF e2 > 0 THEN e2 ELSE MatchNotePatterns(ls, i, notes, k + 1)

\* The removal from position i on of the name s, whose lower-cased form is ls.
RECURSIVE RemoveFrom(_, _, _, _)
RemoveFrom(s, ls, i, notes) ==
    IF i > Len(s) THEN EmptyText
    ELSE LET e == MatchNotePatterns(ls, i, notes, 1)
         IN  IF e > 0 THEN RemoveFrom(s, ls, e + 1, notes)
             ELSE <<s[i]>> \o RemoveFrom(s, ls, i + 1, notes)

\* re.sub with count=1: only the first match is removed.
RECURSIVE RemoveFirstFrom(_, _, _, _)
RemoveFirstFrom(s, ls, i, notes) ==
    IF i > Len(s) THEN EmptyText
    ELSE LET e == MatchNotePatterns(ls, i, notes, 1)
         IN  IF e > 0 THEN SubSeq(s, e + 1, Len(s))
             ELSE <<s[i]>> \o RemoveFirstFrom(s, ls, i + 1, notes)

RemoveFirstNoteReference(s, note_numbers) ==
    RemoveFirstFrom(s, Lower(s), 1, [k \in 1..Len(note_numbers) |-> Lower(note_numbers[k])])

\* re.sub(combined_pattern, "", col, flags=re.IGNORECASE): every match found in
\* one scan from left to right is removed.
RemoveNoteReferences(s, note_numbers) ==
    RemoveFrom(s, Lower(s), 1, [k \in 1..Len(note_numbers) |-> Lower(note_numbers[k])])

\* df.columns = df.columns.str.strip(), on the table object itself.
strip_column_names(t) ==
    [columns |-> [k \in 1..Len(t.columns) |-> Strip(t.columns[k])], rows |-> t.rows]

\* dropna().astype(str).tolist() of the registry column.
NoteNumbers(notes, note_number_column) ==
    SelectSeq(Column(notes, note_number_column), LAMBDA c : c # Missing)

\* The registry column looked for only after the column names were rewritten.
remove_column_name_note_numbers_late_check(t, notes, note_number_column) ==
    IF ~HasColumn(notes, note_number_column)
    THEN [df |-> strip_column_names(t), ret |-> Raised("ValueError")]
    ELSE LET note_numbers == NoteNumbers(notes, note_number_column)
             new_columns == [k \in 1..Len(t.columns) |->
                                RemoveNoteReferences(t.columns[k], note_numbers)]
             renamed == strip_column_names([columns |-> new_columns, rows |-> t.rows])
         IN  [df |-> renamed, ret |-> Returned(renamed)]

\* The call: the caller's table after it (renamed in place) and what is returned.
remove_column_name_note_numbers(t, notes, note_number_column) ==
    IF ~HasColumn(notes, note_number_column)
    THEN [df |-> t, ret |-> Raised("ValueError")]
    ELSE LET note_numbers == NoteNumbers(notes, note_number_column)
             new_columns == [k \in 1..Len(t.columns) |->
                                RemoveNoteReferences(t.columns[k], note_numbers)]
             renamed == strip_column_names([columns |-> new_columns, rows |-> t.rows])
         IN  [df |-> renamed, ret |-> Returned(renamed)]

\* What the generated column headers are put together from.
HeaderSegments ==
    { <<"Q">>, <<" ">>, <<"[">>, <<"1", "]">>,
      <<"[", "1", "]">>,
      <<"[", "N", "o", "t", "e", " ", "1", "]">>,
      <<"[", "n", "o", "t", "e", "1", "]">>,
      <<"[", "1", ",", " ", "2", "]">>,
      <<"[", "n", "o", "t", "e", "s", " ", "8", " ", "a", "n", "d", " ", "9", "]">>,
      <<"[", "a", "b", "c", "]">>,
      <<"[", "n", "o", "t", "e", " ", "5", "]">>,
      <<"[", "A", "]">> }

RECURSIVE Concat(_)
Concat(ss) == IF ss = <<>> THEN EmptyText ELSE Head(ss) \o Concat(Tail(ss))

Headers == {Concat(ss) : ss \in TextsUpTo(HeaderSegments, MaxHeaderSegments)}

ColNoteText == <<"N", "o", "t", "e", " ", "t", "e", "x", "t">>

\* The footnote tables: two registries, and a table that lacks the registry column.
NotesTables ==
    { [columns |-> <<ColNoteNumber, ColNoteText>>,
       rows |-> << <<<<"1">>, <<"x">>>> >>],
      [columns |-> <<ColNoteText, ColNoteNumber>>,
       rows |-> << <<<<"x">>, <<"a">>>>, <<<<"y">>, Missing>>, <<<<"z">>, <<"1">>>> >>],
      [columns |-> <<ColNoteText>>,
       rows |-> << <<<<"x">>>> >>] }

InitNotes ==
    /\ \E h \in Headers :
          df_data = [columns |-> <<ColDemographicVariable, h>>,
                     rows |-> << <<<<"A", ".", "b">>, <<"7">>>> >>]
    /\ df_notes \in NotesTables
    /\ pc = "ready"
    /\ call = [op |-> "none", delimiters |-> <<>>]
    /\ df_before = df_data
    /\ ret = NoReturn

\* reshape_data's use of the footnote stripper (line 274).
RemoveColumnNameNoteNumbers ==
    /\ pc = "ready"
    /\ LET r == remove_column_name_note_numbers(df_data, df_notes, ColNoteNumber)
       IN  /\ df_data' = r.df
           /\ ret' = r.ret
    /\ call' = [op |-> "remove_column_name_note_numbers", delimiters |-> <<>>]
    /\ df_before' = df_data
    /\ pc' = "done"
    /\ UNCHANGED df_notes

NextNotes == RemoveColumnNameNoteNumbers

SpecNotes == InitNotes /\ [][NextNotes]_vars

\* Both functions that check for a required column, on the tables of both.
InitConfig == InitSplit \/ InitNotes

NextConfig == SplitColumnOnDelimiter \/ RemoveColumnNameNoteNumbers

SpecConfig == InitConfig /\ [][NextConfig]_vars

-----------------------------------------------------------------------------
(* Properties of remove_column_name_note_numbers.                          *)

NotesDone == pc = "done" /\ call.op = "remove_column_name_note_numbers"

\* The identifiers of the footnote registry the stripper was given.
RegistryIds ==
    IF HasColumn(df_notes, ColNoteNumber)
    THEN {Column(df_notes, ColNoteNumber)[i] : i \in 1..Len(df_notes.rows)} \ {Missing}
    ELSE {}

NoteWord == <<"n", "o", "t", "e">>
NotesWord == <<"n", "o", "t", "e", "s">>

\* x is the word w, then whitespace, then one or more characters of cs.
IsWordThenList(x, w, cs) ==
    /\ Len(x) >= Len(w) + 2
    /\ SubSeq(Lower(x), 1, Len(w)) = w
    /\ x[Len(w) + 1] \in Whitespace
    /\ \A k \in (Len(w) + 1)..Len(x) : LowerChar(x[k]) \in cs

\* x is "note", optional whitespace, and a registry identifier.
IsNoteWordThenId(x, ids) ==
    /\ Len(x) >= 4
    /\ SubSeq(Lower(x), 1, 4) = NoteWord
    /\ \E k \in 4..Len(x) :
          /\ \A m \in 5..k : x[m] \in Whitespace
          /\ \E id \in ids : Lower(SubSeq(x, k + 1, Len(x))) = Lower(id)

\* The footnote references as the claim lists them, x being the text between
\* the brackets: [<id>], [note <id>], [notes ...] and a list of only digits,
\* spaces and commas; letter case and the kind of whitespace are not held
\* against the claim.
IsClaimedReference(x, ids) ==
    \/ \E id \in ids : Lower(x) = Lower(id)
    \/ IsNoteWordThenId(x, ids)
    \/ IsWordThenList(x, NotesWord, Digits \cup Whitespace \cup {",", "a", "n", "d"})
    \/ (x # EmptyText /\ \A k \in 1..Len(x) : x[k] \in Digits \cup Whitespace \cup {","})

\* The footnote references as the pattern has them: those, and also the word
\* "note" without an "s" before a list, whatever the list holds.
IsPatternReference(x, ids) ==
    \/ IsClaimedReference(x, ids)
    \/ IsWordThenList(x, NoteWord, Digits \cup Whitespace \cup {",", "a", "n", "d"})

\* The bracketed spans of s: the pairs <<i, j>> with "[" at i, "]" at j and no
\* bracket between them.
BracketSpans(s) ==
    {ij \in (1..Len(s)) \X (1..Len(s)) :
        /\ ij[1] < ij[2]
        /\ s[ij[1]] = "["
        /\ s[ij[2]] = "]"
        /\ \A k \in (ij[1] + 1)..(ij[2] - 1) : s[k] \notin {"[", "]"}}

Inner(s, ij) == SubSeq(s, ij[1] + 1, ij[2] - 1)

\* The text b occurs somewhere in s.
OccursIn(s, b) == \E i \in 1..(Len(s) + 1) : OccursAt(s, i, b)

\* No "[" of s lies inside a bracketed span: a "]" separates any two "[".
BracketsNotNested(s) ==
    \A i \in 1..Len(s) : \A j \in (i + 1)..Len(s) :
        (s[i] = "[" /\ s[j] = "[") => \E k \in (i + 1)..(j - 1) : s[k] = "]"

\* C7, as claimed: no returned column name still holds one of the listed
\* references, a bracketed span that is none of them is still in the name, and
\* no returned name begins or ends with whitespace.
C7_AllReferencesRemoved ==
    (NotesDone /\ ret.kind = "ok") =>
        \A k \in 1..Len(df_before.columns) :
            LET old == df_before.columns[k]
                new == ret.table.columns[k]
            IN  /\ \A ij \in BracketSpans(new) : ~IsClaimedReference(Inner(new, ij), RegistryIds)
                /\ \A ij \in BracketSpans(old) :
                      ~IsClaimedReference(Inner(old, ij), RegistryIds)
                          => OccursIn(new, SubSeq(old, ij[1], ij[2]))
                /\ NoOuterWhitespace(new)

\* C7, amended: with the references as the pattern has them, a returned column
\* name whose original has no nested brackets holds no reference; in every
\* name a bracketed span that is no reference is still there; and no returned
\* name begins or ends with whitespace.
C7_ReferencesRemovedWhenNotNested ==
    (NotesDone /\ ret.kind = "ok") =>
        \A k \in 1..Len(df_before.columns) :
            LET old == df_before.columns[k]
                new == ret.table.columns[k]
            IN  /\ BracketsNotNested(old) =>
                      \A ij \in BracketSpans(new) :
                          ~IsPatternReference(Inner(new, ij), RegistryIds)
                /\ \A ij \in BracketSpans(old) :
                      ~IsPatternReference(Inner(old, ij), RegistryIds)
                          => OccursIn(new, SubSeq(old, ij[1], ij[2]))
                /\ NoOuterWhitespace(new)

\* A header with two references and a bracketed span that is none was stripped:
\* the references are gone and the other span is kept.
C7_Witness ==
    /\ NotesDone
    /\ ret.kind = "ok"
    /\ \E k \in 1..Len(df_before.columns) :
          LET old == df_before.columns[k]
              new == ret.table.columns[k]
          IN  /\ BracketsNotNested(old)
              /\ Cardinality({ij \in BracketSpans(old) :
                                 IsPatternReference(Inner(old, ij), RegistryIds)}) >= 2
              /\ \E ij \in BracketSpans(old) :
                    ~IsPatternReference(Inner(old, ij), RegistryIds)
              /\ BracketSpans(new) # {}
              /\ Len(new) < Len(old)

\* C10: called with a footnote table that lacks the registry column, or with a
\* data table that lacks the input column, the call raises an error and the
\* data table is as it was before the call: names, order and cells.
C10_ConfigurationErrorBeforeAnyChange ==
    /\ (NotesDone /\ ~HasColumn(df_notes, ColNoteNumber)) =>
          (ret.kind = "error" /\ df_data = df_before)
    /\ (SplitDone /\ ~HasColumn(df_before, ColDemographicVariable)) =>
          (ret.kind = "error" /\ df_data = df_before)

\* The stripper was called without the registry column on a table whose column
\* names it would have rewritten.
C10_Witness ==
    /\ NotesDone
    /\ ~HasColumn(df_notes, ColNoteNumber)
    /\ ret.kind = "error"
    /\ strip_column_names(df_before) # df_before

-----------------------------------------------------------------------------
(* unpivot_dataframe (src/utils.py 209-236).                               *)

\* The candidate identifier columns, in the order the function lists them.
IdentifierColumns ==
    <<ColDemographicVariableCode, ColDemographicVariableName, ColDerivedFrom,
      ColResponse, ColNotes>>

\* A melt that goes through the table row by row instead of column by column.
MeltRowByRow(t, id_vars, value_vars) ==
    LET R == Len(t.rows)
        M == Len(value_vars)
    IN  [columns |-> id_vars \o <<ColMeasure, ColValue>>,
         rows |-> [n \in 1..(R * M) |->
                     LET i == ((n - 1) \div M) + 1
                         j == ((n - 1) % M) + 1
                     IN  [k \in 1..Len(id_vars) |-> t.rows[i][GetLoc(t, id_vars[k])]]
                         \o <<value_vars[j], t.rows[i][GetLoc(t, value_vars[j])]>>]]

\* pd.melt(df, id_vars, value_vars, var_name="Measure", value_name="Value"): the
\* value columns are stacked one after the other, each with all the rows.
Melt(t, id_vars, value_vars) ==
    LET R == Len(t.rows)
        M == Len(value_vars)
    IN  [columns |-> id_vars \o <<ColMeasure, ColValue>>,
         rows |-> [n \in 1..(R * M) |->
                     LET j == ((n - 1) \div R) + 1
                         i == ((n - 1) % R) + 1
                     IN  [k \in 1..Len(id_vars) |-> t.rows[i][GetLoc(t, id_vars[k])]]
                         \o <<value_vars[j], t.rows[i][GetLoc(t, value_vars[j])]>>]]

unpivot_dataframe(t) ==
    LET keep_columns == SelectSeq(IdentifierColumns, LAMBDA c : HasColumn(t, c))
        unpivot_columns ==
            SelectSeq(t.columns,
                      LAMBDA c : \A k \in 1..Len(keep_columns) : keep_columns[k] # c)
    IN  Melt(t, keep_columns, unpivot_columns)

ColM1 == <<"M", "1">>
ColM2 == <<"M", "2">>
ColM3 == <<"M", "3">>

\* The column layouts of the wide tables given to the unpivoter.
WideLayouts ==
    { <<ColResponse, ColM1, ColM2>>,
      <<ColM1, ColResponse, ColM2, ColDemographicVariableName>>,
      <<ColDemographicVariableCode, ColResponse, ColM1>>,
      <<ColNotes, ColM1, ColM2, ColM3>> }

WideCells == { <<"x">>, <<"7">> }

InitUnpivot ==
    /\ \E columns \in WideLayouts, R \in 0..MaxRows :
          \E rows \in [1..R -> [1..Len(columns) -> WideCells]] :
              df_data = [columns |-> columns, rows |-> rows]
    /\ df_notes = DefaultNotes
    /\ pc = "ready"
    /\ call = [op |-> "none", delimiters |-> <<>>]
    /\ df_before = df_data
    /\ ret = NoReturn

\* reshape_data's use of the unpivoter (line 277).
UnpivotDataframe ==
    /\ pc = "ready"
    /\ ret' = Returned(unpivot_dataframe(df_data))
    /\ call' = [op |-> "unpivot_dataframe", delimiters |-> <<>>]
    /\ df_before' = df_data
    /\ pc' = "done"
    /\ UNCHANGED <<df_data, df_notes>>

NextUnpivot == UnpivotDataframe

SpecUnpivot == InitUnpivot /\ [][NextUnpivot]_vars

-----------------------------------------------------------------------------
(* Properties of unpivot_dataframe.                                        *)

UnpivotDone == pc = "done" /\ call.op = "unpivot_dataframe"

IdentifierSet == {IdentifierColumns[k] : k \in 1..Len(IdentifierColumns)}

\* The positions, in the table given, of its measure columns, left to right.
MeasurePositions(t) ==
    LET ps == {k \in 1..Len(t.columns) : t.columns[k] \notin IdentifierSet}
    IN  [j \in 1..Cardinality(ps) |->
            CHOOSE k \in ps : Cardinality({m \in ps : m < k}) = j - 1]

\* Output row n is the record of original row i and measure column j: the
\* identifier values of row i, the name of the column, and the cell.
IsRecordOf(n, i, j) ==
    LET t == df_before
        out == ret.table
        k == MeasurePositions(t)[j]
    IN  /\ Column(out, ColMeasure)[n] = t.columns[k]
        /\ Column(out, ColValue)[n] = t.rows[i][k]
        /\ \A c \in IdentifierSet :
              HasColumn(t, c) => (HasColumn(out, c) /\ Column(out, c)[n] = Column(t, c)[i])

\* C3, as claimed: R * M output rows, and the record of row i and measure
\* column j is output row (i - 1) * M + j: grouped by original row.
C3_UnpivotGroupedByRow ==
    UnpivotDone =>
        LET R == Len(df_before.rows)
            M == Len(MeasurePositions(df_before))
        IN  /\ Len(ret.table.rows) = R * M
            /\ \A i \in 1..R : \A j \in 1..M : IsRecordOf((i - 1) * M + j, i, j)

\* C3, amended: R * M output rows, and the record of row i and measure column
\* j is output row (j - 1) * R + i: grouped by measure column, in the original
\* order of the measure columns, and within one measure column in row order.
C3_UnpivotGroupedByMeasure ==
    UnpivotDone =>
        LET R == Len(df_before.rows)
            M == Len(MeasurePositions(df_before))
        IN  /\ ret.kind = "ok"
            /\ Len(ret.table.rows) = R * M
            /\ \A i \in 1..R : \A j \in 1..M : IsRecordOf((j - 1) * R + i, i, j)

\* A table of two rows that differ and two measure columns was unpivoted.
C3_Witness ==
    /\ UnpivotDone
    /\ Len(df_before.rows) = 2
    /\ df_before.rows[1] # df_before.rows[2]
    /\ Len(MeasurePositions(df_before)) >= 2
    /\ Len(ret.table.rows) = 2 * Len(MeasurePositions(df_before))

-----------------------------------------------------------------------------
(* split_measure_name_column (src/utils.py 149-206).                       *)

\* start_pos = None
None == 0 - 1

\* ($|[\s:,]) after the first p characters of lc.
MarkerEnds(lc, p) == p = Len(lc) \/ lc[p + 1] \in Whitespace \cup {":", ","}

\* re.match(r"^(e\.?g\.?|for\s+example)($|[\s:,])", content, re.IGNORECASE): each
\* optional full stop is tried both ways; the whitespace run before "example"
\* can only be taken whole, "e" being no whitespace.
IsIllustrative(content) ==
    LET lc == Lower(content)
    IN  \/ \E m \in { <<"e", ".", "g", ".">>, <<"e", ".", "g">>,
                      <<"e", "g", ".">>, <<"e", "g">> } :
              OccursAt(lc, 1, m) /\ MarkerEnds(lc, Len(m))
        \/ /\ OccursAt(lc, 1, <<"f", "o", "r">>)
           /\ LET e == RunEnd(lc, 4, Whitespace)
              IN  /\ e > 4
                  /\ OccursAt(lc, e, <<"e", "x", "a", "m", "p", "l", "e">>)
                  /\ MarkerEnds(lc, e + 6)

\* The loop of lines 171-184 from offset i (0-based) on, with the depth counter,
\* the start of the open top-level span and the spans recorded so far.
RECURSIVE ScanParentheticals(_, _, _, _, _)
ScanParentheticals(value, i, depth, start_pos, parentheticals) ==
    IF i >= Len(value) THEN parentheticals
    ELSE IF value[i + 1] = "("
    THEN ScanParentheticals(value, i + 1, depth + 1,
                            IF depth = 0 THEN i ELSE start_pos, parentheticals)
    ELSE IF value[i + 1] = ")"
    THEN IF depth - 1 = 0 /\ start_pos # None
         THEN LET content == Strip(Slice(value, start_pos + 1, i))
              IN  ScanParentheticals(value, i + 1, 0, None,
                      IF ~IsIllustrative(content)
                      THEN Append(parentheticals,
                                  [start |-> start_pos, end |-> i + 1, content |-> content])
                      ELSE parentheticals)
         ELSE ScanParentheticals(value, i + 1, depth - 1, start_pos, parentheticals)
    ELSE ScanParentheticals(value, i + 1, depth, start_pos, parentheticals)

\* The loop of lines 190-195 from the k-th recorded span on.
RECURSIVE RemoveParentheticals(_, _, _, _)
RemoveParentheticals(cleaned, offset, parentheticals, k) ==
    IF k > Len(parentheticals) THEN cleaned
    ELSE LET adjusted_start == parentheticals[k].start - offset
             adjusted_end == parentheticals[k].end - offset
         IN  RemoveParentheticals(
                 Slice(cleaned, 0, adjusted_start) \o Slice(cleaned, adjusted_end, Len(cleaned)),
                 offset + (parentheticals[k].end - parentheticals[k].start),
                 parentheticals, k + 1)

\* sep.join(texts)
RECURSIVE Join(_, _)
Join(sep, texts) ==
    IF texts = <<>> THEN EmptyText
    ELSE IF Len(texts) = 1 THEN texts[1]
    ELSE texts[1] \o sep \o Join(sep, Tail(texts))

\* split_row of split_measure_name_column: the Measure name and the Definition.
split_measure_name_column_split_row(value) ==
    LET parentheticals == ScanParentheticals(value, 0, 0, None, <<>>)
        definitions == [k \in 1..Len(parentheticals) |-> parentheticals[k].content]
        cleaned == RemoveParentheticals(value, 0, parentheticals, 1)
    IN  [name |-> Strip(cleaned), definition |-> Join(<<";", " ">>, definitions)]

\* The call: the input column is dropped from a copy, and the two columns are
\* inserted into the copy where it was.
split_measure_name_column(t, input_column) ==
    IF ~HasColumn(t, input_column)
    THEN Raised("KeyError")
    ELSE LET n == Len(t.rows)
             cells == Column(t, input_column)
             split_df == [i \in 1..n |-> split_measure_name_column_split_row(cells[i])]
             col_idx == GetLoc(t, input_column)
             dropped == DropColumn(t, input_column)
             t1 == InsertColumn(dropped, col_idx, ColMeasureName,
                                [i \in 1..n |-> split_df[i].name])
         IN  IF HasColumn(t1, ColDefinition)
             THEN Raised("ValueError")
             ELSE Returned(InsertColumn(t1, col_idx + 1, ColDefinition,
                                        [i \in 1..n |-> split_df[i].definition]))

\* What the generated measure labels are put together from.
MeasureSegments == { <<"a">>, <<" ">>, <<"(">>, <<")">>, <<"e", ".", "g", ".">> }

ExampleMeasures ==
    { <<"R", "e", "s", "p", "o", "n", "s", "e", " ", "r", "a", "t", "e", " ", "(", "b", "a", "s", "e", ":", " ", "a", "l", "l", " ", "r", "e", "s", "p", "o", "n", "d", "e", "n", "t", "s", ")", " ", "(", "e", "x", "c", "l", "u", "d", "e", "s", " ", "n", "o", "n", "-", "r", "e", "s", "p", "o", "n", "d", "e", "r", "s", ")">>,
      <<"S", "c", "o", "r", "e", " ", "(", "e", ".", "g", ".", " ", "1", "-", "5", ")">>,
      <<"a", " ", "(", "b", " ", "(", "c", ")", " ", "d", ")", " ", "e", " ", "(", "F", "o", "r", " ", " ", "e", "x", "a", "m", "p", "l", "e", ",", " ", "f", ")", " ", "(", "g", ")">>,
      <<"1", ")", " ", "A", "g", "r", "e", "e", " ", "(", "s", "t", "r", "o", "n", "g", "l", "y", ")">>,
      <<"(", "e", "g", ":", " ", "x", ")", " ", "(", "e", ".", "g", ".", "x", ")", " ", "(", " ", ")">> }

MeasureTexts ==
    {Concat(ss) : ss \in TextsUpTo(MeasureSegments, MaxMeasureSegments)} \cup ExampleMeasures

LongLayout == <<ColResponse, ColMeasureCode, ColMeasureName, ColValue>>

LongRow(m) == << <<"r">>, <<"B", "1">>, m, <<"7">> >>

\* A long table of one row with any of the labels, or of two rows with examples.
InitMeasure ==
    /\ \/ \E m \in MeasureTexts :
             df_data = [columns |-> LongLayout, rows |-> <<LongRow(m)>>]
       \/ \E m \in ExampleMeasures, u \in ExampleMeasures :
             df_data = [columns |-> LongLayout, rows |-> <<LongRow(m), LongRow(u)>>]
    /\ df_notes = DefaultNotes
    /\ pc = "ready"
    /\ call = [op |-> "none", delimiters |-> <<>>]
    /\ df_before = df_data
    /\ ret = NoReturn

\* reshape_data's use of the measure annotation parser (line 279).
SplitMeasureNameColumn ==
    /\ pc = "ready"
    /\ ret' = split_measure_name_column(df_data, ColMeasureName)
    /\ call' = [op |-> "split_measure_name_column", delimiters |-> <<>>]
    /\ df_before' = df_data
    /\ pc' = "done"
    /\ UNCHANGED <<df_data, df_notes>>

NextMeasure == SplitMeasureNameColumn

SpecMeasure == InitMeasure /\ [][NextMeasure]_vars

-----------------------------------------------------------------------------
(* Properties of split_measure_name_column.                                *)

MeasureDone == pc = "done" /\ call.op = "split_measure_name_column"

CountOf(s, c, from, to) == Cardinality({k \in from..to : s[k] = c})

\* The "(" at i and the ")" at j match: what lies between them is balanced.
IsMatchingPair(s, i, j) ==
    /\ i < j
    /\ s[i] = "("
    /\ s[j] = ")"
    /\ CountOf(s, "(", i + 1, j - 1) = CountOf(s, ")", i + 1, j - 1)
    /\ \A m \in (i + 1)..(j - 1) :
          CountOf(s, "(", i + 1, m) >= CountOf(s, ")", i + 1, m)

MatchingPairs(s) ==
    {ij \in (1..Len(s)) \X (1..Len(s)) : IsMatchingPair(s, ij[1], ij[2])}

\* The top-level parenthetical spans: the matching pairs not inside another one.
TopLevelSpans(s) ==
    {ij \in MatchingPairs(s) :
        \A ab \in MatchingPairs(s) : ~(ab[1] < ij[1] /\ ij[2] < ab[2])}

SpanContent(s, ij) == Strip(SubSeq(s, ij[1] + 1, ij[2] - 1))

\* The top-level spans whose trimmed content has no illustrative marker.
DefinitionSpans(s) == {ij \in TopLevelSpans(s) : ~IsIllustrative(SpanContent(s, ij))}

\* The elements of a set of spans from left to right.
InOrder(spans) ==
    [n \in 1..Cardinality(spans) |->
        CHOOSE ij \in spans : Cardinality({ab \in spans : ab[1] < ij[1]}) = n - 1]

\* The Definition the claim describes: the trimmed contents of the definition
\* spans from left to right, joined with "; ".
ClaimedDefinition(s) ==
    LET spans == InOrder(DefinitionSpans(s))
    IN  Join(<<";", " ">>, [n \in 1..Len(spans) |-> SpanContent(s, spans[n])])

\* The Measure name the claim describes: the text without the characters of
\* its definition spans, trimmed.
ClaimedMeasureName(s) ==
    LET kept == {k \in 1..Len(s) :
                    \A ij \in DefinitionSpans(s) : k < ij[1] \/ k > ij[2]}
        at(n) == CHOOSE k \in kept : Cardinality({m \in kept : m < k}) = n - 1
    IN  Strip([n \in 1..Cardinality(kept) |-> s[at(n)]])

MeasureInput(i) == Column(df_before, ColMeasureName)[i]

\* C4, as claimed: for every cell, Definition is the trimmed contents of every
\* top-level parenthetical span without an illustrative marker, wherever the
\* span is in the text, from left to right, joined with "; ".
C4_DefinitionIsEveryTopLevelSpan ==
    MeasureDone =>
        /\ ret.kind = "ok"
        /\ \A i \in 1..Len(df_before.rows) :
              Column(ret.table, ColDefinition)[i] = ClaimedDefinition(MeasureInput(i))

\* C5, as claimed: for every cell, Measure name is the text with exactly the
\* top-level spans without an illustrative marker deleted, then trimmed, so
\* that illustrative spans stay in it and give no fragment, and parentheses
\* nested in a top-level span give no fragment of their own.
C5_MeasureNameIsTextWithoutSpans ==
    MeasureDone =>
        /\ ret.kind = "ok"
        /\ \A i \in 1..Len(df_before.rows) :
              LET s == MeasureInput(i)
                  illustrative == TopLevelSpans(s) \ DefinitionSpans(s)
              IN  /\ Column(ret.table, ColMeasureName)[i] = ClaimedMeasureName(s)
                  /\ \A ij \in illustrative :
                        OccursIn(Column(ret.table, ColMeasureName)[i],
                                 SubSeq(s, ij[1], ij[2]))
                  /\ \E n \in 0..Len(s) :
                        /\ n <= Cardinality(DefinitionSpans(s))
                        /\ Column(ret.table, ColDefinition)[i]
                              \in {Join(<<";", " ">>, fs) :
                                     fs \in [1..n -> {SpanContent(s, ij) : ij \in DefinitionSpans(s)}]}

\* Every text in which no ")" comes before its "(" and every "(" is closed.
IsBalanced(s) ==
    /\ CountOf(s, "(", 1, Len(s)) = CountOf(s, ")", 1, Len(s))
    /\ \A m \in 1..Len(s) : CountOf(s, "(", 1, m) >= CountOf(s, ")", 1, m)

\* On balanced texts the function does what C4 and C5 describe.
MeasureClaimsHoldWhenBalanced ==
    MeasureDone =>
        \A i \in 1..Len(df_before.rows) :
            IsBalanced(MeasureInput(i)) =>
                /\ Column(ret.table, ColDefinition)[i] = ClaimedDefinition(MeasureInput(i))
                /\ Column(ret.table, ColMeasureName)[i] = ClaimedMeasureName(MeasureInput(i))

-----------------------------------------------------------------------------
(* split_demographic_variable_name_column (src/utils.py 109-146).          *)

DerivedFromPhrase == <<"d", "e", "r", "i", "v", "e", "d", " ", "f", "r", "o", "m">>

\* "." of a pattern compiled without re.DOTALL matches any character but a line break.
HasLineBreak(s, from, to) == \E k \in from..to : s[k] = "\n"

\* The last position of s that holds no whitespace (0 if there is none).
LastNonWhitespace(s) ==
    LET ks == {k \in 1..Len(s) : s[k] \notin Whitespace}
    IN  IF ks = {} THEN 0 ELSE SetMax(ks)

\* re.match(r"^(.+?)\s*\((.*?)\)\s*$", value).  Group 1 is the shortest prefix of
\* one or more characters, none a line break, after which whitespace and "("
\* follow; the ")" is the one that only whitespace follows; group 2, between
\* them, holds no line break.  The lengths m of group 1 for which that matches:
MainLengths(value) ==
    LET q == LastNonWhitespace(value)
    IN  {m \in 1..Len(value) :
            /\ ~HasLineBreak(value, 1, m)
            /\ LET p == RunEnd(value, m + 1, Whitespace)
               IN  /\ p < q
                   /\ value[p] = "("
                   /\ value[q] = ")"
                   /\ ~HasLineBreak(value, p + 1, q - 1)}

\* re.sub(r"(?i)derived from", "", inside) from position i on.
RECURSIVE RemovePhraseFrom(_, _, _)
RemovePhraseFrom(s, ls, i) ==
    IF i > Len(s) THEN EmptyText
    ELSE IF OccursAt(ls, i, DerivedFromPhrase)
    THEN RemovePhraseFrom(s, ls, i + Len(DerivedFromPhrase))
    ELSE <<s[i]>> \o RemovePhraseFrom(s, ls, i + 1)

\* split_row of split_demographic_variable_name_column.
split_demographic_variable_name_column_split_row(value) ==
    LET ms == MainLengths(value)
    IN  IF ms = {}
        THEN [name |-> Strip(value), derived |-> EmptyText]
        ELSE LET m == SetMin(ms)
                 p == RunEnd(value, m + 1, Whitespace)
                 q == LastNonWhitespace(value)
                 main == Strip(SubSeq(value, 1, m))
                 inside == Strip(SubSeq(value, p + 1, q - 1))
             IN  IF OccursIn(Lower(inside), DerivedFromPhrase)
                 THEN [name |-> main,
                       derived |-> StripChars(RemovePhraseFrom(inside, Lower(inside), 1),
                                              {" ", ":", ",", "-"})]
                 ELSE [name |-> Strip(value), derived |-> EmptyText]

\* The call: the column is looked for, dropped from a copy, and the two columns
\* are inserted into the copy where it was.
split_demographic_variable_name_column(t, input_column) ==
    IF ~HasColumn(t, input_column)
    THEN Raised("ValueError")
    ELSE LET n == Len(t.rows)
             cells == Column(t, input_column)
             split_df == [i \in 1..n |->
                            split_demographic_variable_name_column_split_row(cells[i])]
             col_idx == GetLoc(t, input_column)
             dropped == DropColumn(t, input_column)
             t1 == InsertColumn(dropped, col_idx, ColDemographicVariableName,
                                [i \in 1..n |-> split_df[i].name])
         IN  IF HasColumn(t1, ColDerivedFrom)
             THEN Raised("ValueError")
             ELSE Returned(InsertColumn(t1, col_idx + 1, ColDerivedFrom,
                                        [i \in 1..n |-> split_df[i].derived]))

\* What the generated variable labels are put together from.
VariableSegments ==
    { <<"A">>, <<" ">>, <<"(">>, <<")">>, <<"\n">>, DerivedFromPhrase }

ExampleVariables ==
    { <<"A", "g", "e", " ", "(", "d", "e", "r", "i", "v", "e", "d", " ", "f", "r", "o", "m", ":", " ", "D", "O", "B", ")">>,
      <<"A", "g", "e", " ", "(", "y", "e", "a", "r", "s", ")">>,
      <<"S", "e", "x", " ", "(", "b", ")", " ", "(", "D", "e", "r", "i", "v", "e", "d", " ", "F", "r", "o", "m", " ", "-", " ", "c", ",", " ", ")">>,
      <<"A", "g", "e", "\n", "g", "r", "o", "u", "p", " ", "(", "d", "e", "r", "i", "v", "e", "d", " ", "f", "r", "o", "m", " ", "D", "O", "B", ")">> }

VariableTexts ==
    {Concat(ss) : ss \in TextsUpTo(VariableSegments, MaxVariableSegments)}
        \cup ExampleVariables

VariableLayout == <<ColDemographicVariableCode, ColDemographicVariableName, ColResponse>>

VariableRow(v) == << <<"A", "1">>, v, <<"r">> >>

\* A table of one row with any of the labels, or of two rows with examples.
InitVariable ==
    /\ \/ \E v \in VariableTexts :
             df_data = [columns |-> VariableLayout, rows |-> <<VariableRow(v)>>]
       \/ \E v \in ExampleVariables, u \in ExampleVariables :
             df_data = [columns |-> VariableLayout, rows |-> <<VariableRow(v), VariableRow(u)>>]
    /\ df_notes = DefaultNotes
    /\ pc = "ready"
    /\ call = [op |-> "none", delimiters |-> <<>>]
    /\ df_before = df_data
    /\ ret = NoReturn

\* reshape_data's use of the variable annotation parser (line 276).
SplitDemographicVariableNameColumn ==
    /\ pc = "ready"
    /\ ret' = split_demographic_variable_name_column(df_data, ColDemographicVariableName)
    /\ call' = [op |-> "split_demographic_variable_name_column", delimiters |-> <<>>]
    /\ df_before' = df_data
    /\ pc' = "done"
    /\ UNCHANGED <<df_data, df_notes>>

NextVariable == SplitDemographicVariableNameColumn

SpecVariable == InitVariable /\ [][NextVariable]_vars

-----------------------------------------------------------------------------
(* Properties of split_demographic_variable_name_column.                   *)

VariableDone == pc = "done" /\ call.op = "split_demographic_variable_name_column"

VariableInput(i) == Column(df_before, ColDemographicVariableName)[i]

\* The text has the form <main text> (<parenthetical>) with optional trailing
\* whitespace: it ends, whitespace aside, with ")", and a "(" after at least
\* one character of main text opens the parenthetical.
OpeningPositions(s) ==
    {p \in 2..Len(s) : s[p] = "(" /\ p < LastNonWhitespace(s)
                       /\ s[LastNonWhitespace(s)] = ")"}

\* What the claim describes for the text s.
ClaimedVariableSplit(s) ==
    IF OpeningPositions(s) = {}
    THEN [name |-> Strip(s), derived |-> EmptyText]
    ELSE LET p == SetMin(OpeningPositions(s))
             content == Strip(SubSeq(s, p + 1, LastNonWhitespace(s) - 1))
         IN  IF \E i \in 1..Len(content) : OccursAt(Lower(content), i, DerivedFromPhrase)
             THEN [name |-> Strip(SubSeq(s, 1, p - 1)),
                   derived |-> StripChars(RemovePhraseFrom(content, Lower(content), 1),
                                          {" ", ":", ",", "-"})]
             ELSE [name |-> Strip(s), derived |-> EmptyText]

\* C6, as claimed: for every cell text of the form <main text> (<parenthetical>)
\* whose parenthetical mentions "derived from", the name is the trimmed main
\* text and Derived from is the parenthetical without the phrase and without
\* separators at its ends; for every other text the name is the trimmed text and
\* Derived from is empty.
C6_DerivedFromExtracted ==
    VariableDone =>
        /\ ret.kind = "ok"
        /\ \A i \in 1..Len(df_before.rows) :
              LET claimed == ClaimedVariableSplit(VariableInput(i))
              IN  /\ Column(ret.table, ColDemographicVariableName)[i] = claimed.name
                  /\ Column(ret.table, ColDerivedFrom)[i] = claimed.derived

\* On texts without a line break before their last character that is no
\* whitespace, the function does what C6 describes.
VariableClaimHoldsWithoutLineBreak ==
    VariableDone =>
        \A i \in 1..Len(df_before.rows) :
            LET s == VariableInput(i)
                claimed == ClaimedVariableSplit(s)
            IN  ~HasLineBreak(s, 1, LastNonWhitespace(s)) =>
                    /\ Column(ret.table, ColDemographicVariableName)[i] = claimed.name
                    /\ Column(ret.table, ColDerivedFrom)[i] = claimed.derived

-----------------------------------------------------------------------------
(* lowercase_response_except_first_word and clean_data                     *)
(* (src/utils.py 239-310).                                                 *)

EnglandSuffix == <<"(", "E", "n", "g", "l", "a", "n", "d", ")">>

\* str(val) of a cell: a missing value reads "nan".
Str(val) == IF val = Missing THEN <<"n", "a", "n">> ELSE val

\* str.split(): the maximal runs of characters that are no whitespace, from i on.
RECURSIVE SplitWords(_, _)
SplitWords(s, i) ==
    IF i > Len(s) THEN <<>>
    ELSE IF s[i] \in Whitespace THEN SplitWords(s, i + 1)
    ELSE LET e == SetMin({j \in i..(Len(s) + 1) : j = Len(s) + 1 \/ s[j] \in Whitespace})
         IN  <<SubSeq(s, i, e - 1)>> \o SplitWords(s, e)

\* transform_response: a value without words is returned as it is.
transform_response(val) ==
    LET words == SplitWords(Str(val), 1)
    IN  IF words = <<>> THEN val
        ELSE words[1] \o
             (IF Len(words) > 1
              THEN <<" ">> \o Join(<<" ">>, [k \in 1..(Len(words) - 1) |-> Lower(words[k + 1])])
              ELSE EmptyText)

\* Series.replace(grade_replacements) of one cell: the whole value is looked up.
ReplaceValue(val, grade_replacements) ==
    IF val \in DOMAIN grade_replacements THEN grade_replacements[val] ELSE val

\* str.replace(r"\s*\(England\)$", "", regex=True) of one cell: "$" is the end of
\* the text or the place before a line break that ends it; the match starts at
\* the leftmost whitespace of the run before the suffix.  A missing value stays.
RemoveEnglandSuffix(val) ==
    IF val = Missing THEN val
    ELSE LET n == Len(val)
             ends == {e \in {n - 1, n} :
                        /\ e >= Len(EnglandSuffix)
                        /\ OccursAt(val, e - Len(EnglandSuffix) + 1, EnglandSuffix)
                        /\ (e = n \/ val[n] = "\n")}
         IN  IF ends = {} THEN val
             ELSE LET e == SetMin(ends)
                      p == e - Len(EnglandSuffix) + 1
                      i == SetMin({j \in 1..p : \A k \in j..(p - 1) : val[k] \in Whitespace})
                  IN  SubSeq(val, 1, i - 1) \o SubSeq(val, e + 1, n)

\* df[c] = cells, on the table object itself.
SetColumn(t, c, cells) ==
    [columns |-> t.columns,
     rows |-> [i \in 1..Len(t.rows) |->
                 [k \in 1..Len(t.columns) |->
                     IF t.columns[k] = c THEN cells[i] ELSE t.rows[i][k]]]]

lowercase_response_except_first_word(t, demographic_variable_name) ==
    LET mask == [i \in 1..Len(t.rows) |->
                    Column(t, ColDemographicVariableName)[i] = demographic_variable_name]
    IN  SetColumn(t, ColResponse,
                  [i \in 1..Len(t.rows) |->
                      IF mask[i] THEN transform_response(Column(t, ColResponse)[i])
                      ELSE Column(t, ColResponse)[i]])

\* No mapping, no target: the argument is None.
NoArgument == [none |-> TRUE]

\* clean_data: an argument that is None or empty skips its step.
clean_data(t, grade_replacements, lowercase_demographic) ==
    LET n == Len(t.rows)
        t1 == IF grade_replacements # NoArgument /\ DOMAIN grade_replacements # {}
              THEN SetColumn(t, ColResponse,
                             [i \in 1..n |-> ReplaceValue(Column(t, ColResponse)[i],
                                                          grade_replacements)])
              ELSE t
        t2 == SetColumn(t1, ColResponse,
                        [i \in 1..n |-> RemoveEnglandSuffix(Column(t1, ColResponse)[i])])
    IN  IF lowercase_demographic # NoArgument /\ lowercase_demographic # EmptyText
        THEN lowercase_response_except_first_word(t2, lowercase_demographic)
        ELSE t2

\* GRADE_REPLACEMENTS of src/extract_data.py.
GRADE_REPLACEMENTS ==
    (<<"A", "O", "/", "A", "A">> :> <<"A", "A", "/", "A", "O">>)
        @@ (<<"S", "E", "O", "/", "H", "E", "O">> :> <<"H", "E", "O", "/", "S", "E", "O">>)
        @@ (<<"G", "6", "/", "7">> :> <<"G", "7", "/", "6">>)

\* A mapping whose values are keys or carry the suffix or several words.
CrossedReplacements ==
    (<<"A">> :> <<"b">>)
        @@ (<<"b">> :> <<"A">>)
        @@ (<<"A", "b">> :> (<<"A", " ", "A", " ">> \o EnglandSuffix))

\* The grade_replacements arguments: None, {}, and two mappings.
ReplacementChoices == {NoArgument, <<>>, GRADE_REPLACEMENTS, CrossedReplacements}

\* The demographic variable whose responses are lowercased, and another one.
TargetName == <<"W", "o", "r", "k", "?">>
OtherName == <<"A", "g", "e">>

\* The lowercase_demographic arguments: None, "", and the target.
TargetChoices == {NoArgument, EmptyText, TargetName}

ResponseSegments == { <<"A">>, <<"b">>, <<" ">>, <<"\n">>, EnglandSuffix }

ExampleResponses ==
    { <<"S", "E", "O", "/", "H", "E", "O">>,
      <<"L", "o", "n", "d", "o", "n", " ", "(", "E", "n", "g", "l", "a", "n", "d", ")">>,
      <<"F", "U", "L", "L", " ", "T", "I", "M", "E", " ", "W", "O", "R", "K">> }

ResponseTexts ==
    {Concat(ss) : ss \in TextsUpTo(ResponseSegments, MaxResponseSegments)}
        \cup ExampleResponses

CleanLayout == <<ColDemographicVariableName, ColResponse, ColMeasureName, ColValue>>

CleanRow(name, response) == <<name, response, <<"Q", "1">>, <<"5">>>>

\* A long table of one row with any response text, or of two rows, an example
\* and a response that is text or missing.
InitClean ==
    /\ \E name \in {TargetName, OtherName} :
          \/ \E r \in ResponseTexts :
                df_data = [columns |-> CleanLayout, rows |-> <<CleanRow(name, r)>>]
          \/ \E r1 \in ExampleResponses, r2 \in ExampleResponses \cup {Missing},
                name2 \in {TargetName, OtherName} :
                df_data = [columns |-> CleanLayout,
                           rows |-> <<CleanRow(name, r1), CleanRow(name2, r2)>>]
    /\ df_notes = DefaultNotes
    /\ pc = "ready"
    /\ call = [op |-> "none", delimiters |-> <<>>]
    /\ df_before = df_data
    /\ ret = NoReturn

\* The clean_data call of src/extract_data.py; the table passed in is the one
\* that is changed.
CleanData ==
    /\ pc = "ready"
    /\ \E grade_replacements \in ReplacementChoices, lowercase_demographic \in TargetChoices :
          /\ df_data' = clean_data(df_data, grade_replacements, lowercase_demographic)
          /\ call' = [op |-> "clean_data", delimiters |-> <<>>,
                      grade_replacements |-> grade_replacements,
                      lowercase_demographic |-> lowercase_demographic]
    /\ ret' = Returned(df_data')
    /\ df_before' = df_data
    /\ pc' = "done"
    /\ UNCHANGED df_notes

NextClean == CleanData

SpecClean == InitClean /\ [][NextClean]_vars

-----------------------------------------------------------------------------
(* Properties of clean_data.                                               *)

CleanDone == pc = "done" /\ call.op = "clean_data"

\* Step 1: the value is replaced when the mapping has it, whole and case-sensitive.
ClaimedReplaced(v, mapping) ==
    IF mapping # NoArgument /\ v \in DOMAIN mapping THEN mapping[v] ELSE v

\* Step 2: a text that ends with "(England)" loses it and the whitespace before it.
ClaimedWithoutSuffix(v) ==
    IF v = Missing THEN v
    ELSE IF /\ Len(v) >= Len(EnglandSuffix)
            /\ SubSeq(v, Len(v) - Len(EnglandSuffix) + 1, Len(v)) = EnglandSuffix
    THEN LET rest == SubSeq(v, 1, Len(v) - Len(EnglandSuffix))
         IN  SubSeq(rest, 1, LastNonWhitespace(rest))
    ELSE v

\* The words of a text: its maximal runs <<a, b>> of characters that are no whitespace.
WordSpans(s) ==
    {w \in (1..Len(s)) \X (1..Len(s)) :
        /\ w[1] <= w[2]
        /\ \A k \in w[1]..w[2] : s[k] \notin Whitespace
        /\ (w[1] = 1 \/ s[w[1] - 1] \in Whitespace)
        /\ (w[2] = Len(s) \/ s[w[2] + 1] \in Whitespace)}

\* The k-th word of s.
Word(s, k) ==
    LET w == CHOOSE w \in WordSpans(s) :
                 Cardinality({u \in WordSpans(s) : u[1] < w[1]}) = k - 1
    IN  SubSeq(s, w[1], w[2])

\* Step 3: the first word as it is, the others lowercased, single spaces between
\* them; a value without words, a missing one too, as it is.
ClaimedLowercased(v) ==
    IF v = Missing THEN v
    ELSE IF WordSpans(v) = {} THEN v
    ELSE LET n == Cardinality(WordSpans(v))
         IN  Join(<<" ">>, [k \in 1..n |-> IF k = 1 THEN Word(v, 1) ELSE Lower(Word(v, k))])

ClaimedResponse(i) ==
    LET v2 == ClaimedWithoutSuffix(
                  ClaimedReplaced(Column(df_before, ColResponse)[i], call.grade_replacements))
    IN  IF /\ call.lowercase_demographic # NoArgument
           /\ Column(df_before, ColDemographicVariableName)[i] = call.lowercase_demographic
        THEN ClaimedLowercased(v2)
        ELSE v2

\* Columns, rows and every cell outside Response are the ones passed in.
CleanFrame ==
    /\ ret.kind = "ok"
    /\ ret.table.columns = df_before.columns
    /\ Len(ret.table.rows) = Len(df_before.rows)
    /\ \A i \in 1..Len(df_before.rows) : \A k \in 1..Len(df_before.columns) :
          df_before.columns[k] # ColResponse => ret.table.rows[i][k] = df_before.rows[i][k]

\* C8, as claimed: every output Response is the input Response after the mapping,
\* then the removal of a trailing "(England)" with the whitespace before it, then,
\* in the rows of the target only, the lowercasing of all words but the first;
\* rows without words, the other columns, the number and the order of the rows
\* stay as they were.
C8_ResponseCleanedInOrder ==
    CleanDone =>
        /\ CleanFrame
        /\ \A i \in 1..Len(df_before.rows) :
              Column(ret.table, ColResponse)[i] = ClaimedResponse(i)

\* The value of row i after step 1 is a text that no line break ends.
SingleLineText(i) ==
    LET v == ClaimedReplaced(Column(df_before, ColResponse)[i], call.grade_replacements)
    IN  v # Missing /\ (v = EmptyText \/ v[Len(v)] # "\n")

\* On such values clean_data does what C8 describes, and the frame always holds.
CleanClaimHoldsOnSingleLineTexts ==
    CleanDone =>
        /\ CleanFrame
        /\ \A i \in 1..Len(df_before.rows) :
              SingleLineText(i) => Column(ret.table, ColResponse)[i] = ClaimedResponse(i)

-----------------------------------------------------------------------------
(* reshape_data (src/utils.py 260-280), invoked twice on the same objects.  *)

\* The value of a set of one value.
The(S) == CHOOSE x \in S : TRUE

\* Lines 277-279 on the table r3 that the variable annotation parser returned;
\* caller is the caller's table as the first splitter call left it.
reshape_data_from_unpivot(caller, n0, r3, delimiters) ==
    The({ IF r5.ret.kind # "ok"
          THEN [df |-> caller, notes |-> n0, ret |-> r5.ret]
          ELSE [df |-> caller, notes |-> n0,
                ret |-> split_measure_name_column(r5.ret.table, ColMeasureName)] :
          r5 \in { split_column_on_delimiter(u, ColMeasure, ColMeasureCode,
                                             ColMeasureName, delimiters) :
                   u \in {unpivot_dataframe(r3.table)} } })

\* Lines 275-279 on the table d1 whose columns were renamed.
reshape_data_from_split(d1, n0, delimiters) ==
    The({ IF r2.ret.kind # "ok"
          THEN [df |-> r2.df, notes |-> n0, ret |-> r2.ret]
          ELSE The({ IF r3.kind # "ok"
                     THEN [df |-> r2.df, notes |-> n0, ret |-> r3]
                     ELSE reshape_data_from_unpivot(r2.df, n0, r3, delimiters) :
                     r3 \in { split_demographic_variable_name_column(
                                  r2.ret.table, ColDemographicVariableName) } }) :
          r2 \in { split_column_on_delimiter(d1, ColDemographicVariable,
                       ColDemographicVariableCode, ColDemographicVariableName,
                       delimiters) } })

\* One invocation on the caller's tables: what the caller's tables are after it
\* (the renaming of lines 272-274 and the df.insert of the first splitter call
\* act on the objects passed in) and what the invocation returns or raises.
\* From the drop of line 105 on, the stages work on tables of their own.  Each
\* stage's result is bound once, as the assignments to df_data bind it.
reshape_data(t, notes, delimiters) ==
    The({ The({ IF r1.ret.kind # "ok"
                THEN [df |-> r1.df, notes |-> n0, ret |-> r1.ret]
                ELSE reshape_data_from_split(r1.df, n0, delimiters) :
                r1 \in {remove_column_name_note_numbers(d0, n0, ColNoteNumber)} }) :
          d0 \in {strip_column_names(t)}, n0 \in {strip_column_names(notes)} })

\* The header of the variable column as the sheets have it, plain or with
\* whitespace and a note reference.
VariableHeaders ==
    { ColDemographicVariable, <<" ">> \o ColDemographicVariable \o <<" ", "[", "1", "]">> }

\* Headers of measure columns; the last holds no delimiter.
MeasureHeaders ==
    { <<"Q", "1", ".", " ", "A", "g", "r", "e", "e", " ", "(", "s", "t", "r", "o", "n", "g", "l", "y", ")", " ", "[", "1", "]">>,
      <<" ", "Q", "2", ".", " ", "b">>,
      <<"T", "o", "t", "a", "l">> }

\* Cells of the variable column; the last holds no delimiter.
VariableCells ==
    { <<"A", "1", ".", " ", "A", "g", "e", " ", "(", "d", "e", "r", "i", "v", "e", "d", " ", "f", "r", "o", "m", ":", " ", "D", "O", "B", ")">>,
      <<"B", "2", ":", " ", "S", "e", "x">>,
      <<"n", "o", "n", "e">> }

\* The footnote registries: the footnote tables that have the registry column.
Registries == {n \in NotesTables : HasColumn(n, ColNoteNumber)}

\* The wide tables: the variable column, Response, one or two measure columns,
\* and at most MaxRows rows.
WideTables ==
    { [columns |-> <<v, ColResponse>> \o ms,
       rows |-> [i \in 1..Len(cs) |-> <<cs[i], <<"r">>>> \o [k \in 1..Len(ms) |-> <<"7">>]]] :
        v \in VariableHeaders,
        ms \in {m \in TextsUpTo(MeasureHeaders, 2) :
                  Len(m) >= 1 /\ \A a, b \in 1..Len(m) : a # b => m[a] # m[b]},
        cs \in {c \in TextsUpTo(VariableCells, MaxRows) : Len(c) >= 1} }

InitReshape ==
    /\ df_data \in WideTables
    /\ df_notes \in Registries
    /\ pc = "ready"
    /\ call = [op |-> "none", delimiters |-> <<>>]
    /\ df_before = df_data
    /\ ret = NoReturn

\* The invocation of src/extract_data.py (line 158) on the tables read from a sheet.
ReshapeData ==
    /\ pc = "ready"
    /\ \E delimiters \in DelimiterChoices :
          LET r == reshape_data(df_data, df_notes, delimiters)
          IN  /\ df_data' = r.df
              /\ df_notes' = r.notes
              /\ ret' = r.ret
              /\ call' = [op |-> "reshape_data", delimiters |-> delimiters,
                          first |-> r.ret]
    /\ df_before' = df_data
    /\ pc' = "once"

\* A second invocation with the same table objects and the same delimiters;
\* call.first keeps what the first one returned.
ReshapeDataAgain ==
    /\ pc = "once"
    /\ LET r == reshape_data(df_data, df_notes, call.delimiters)
       IN  /\ df_data' = r.df
           /\ df_notes' = r.notes
           /\ ret' = r.ret
    /\ pc' = "done"
    /\ UNCHANGED <<call, df_before>>

NextReshape == ReshapeData \/ ReshapeDataAgain

SpecReshape == InitReshape /\ [][NextReshape]_vars

-----------------------------------------------------------------------------
(* Properties of reshape_data invoked twice.                               *)

ReshapedTwice == pc = "done" /\ call.op = "reshape_data"

\* C11, as claimed: two invocations in succession with the same wide table and
\* the same footnote registry both complete and return the same long table.
C11_SecondInvocationReturnsTheSame ==
    ReshapedTwice =>
        /\ call.first.kind = "ok"
        /\ ret.kind = "ok"
        /\ ret.table = call.first.table

\* After an invocation that returned, the table it was given holds
\* the two output columns of the splitter next to the variable column, and every
\* further invocation on it raises ValueError.
SecondInvocationRaises ==
    /\ (pc = "once" /\ call.first.kind = "ok") =>
          /\ HasColumn(df_data, ColDemographicVariable)
          /\ HasColumn(df_data, ColDemographicVariableCode)
          /\ HasColumn(df_data, ColDemographicVariableName)
    /\ (ReshapedTwice /\ call.first.kind = "ok") =>
          /\ ret.kind = "error"
          /\ ret.error = "ValueError"

\* Some first invocation returns a long table.
FirstInvocationReturns == pc = "once" /\ call.first.kind = "ok"

====
